---- MODULE Spec2Model ----
(***************************************************************************)
(* State-machine model of sensord's SocketHandler / SessionData            *)
(* (src/sensord/sockethandler.cpp).                                        *)
(*                                                                         *)
(* One action per slot or public method.  All slots run on the single Qt   *)
(* event loop, so every handler is one atomic step.  Inputs a handler      *)
(* receives (session ids, payloads, interval values, the id a client       *)
(* sends) are drawn from small sets.  Wall-clock time (gettimeofday) is a  *)
(* microsecond counter advanced by Tick.                                   *)
(***************************************************************************)
EXTENDS Integers, Sequences, FiniteSets, TLC

(***************************************************************************)
(* Bounds of the model.                                                    *)
(***************************************************************************)
MaxConn == 2
MaxSessionId == 1
MaxSize == 2
MaxByte == 1
MaxInterval == 1
MaxWild == 1
MaxTicks == 2
MaxNodes == 3
MaxRangeNodes == 2
MaxNodeSession == 2
MaxRange == 2
MaxList == 1

(***************************************************************************)
(* Program constants.                                                      *)
(***************************************************************************)
Unlimited == -1
NoSession == -1
NullSock == 0
LONG_MAX == 2147483647
MsecPerSec == 1000
UsecPerMsec == 1000
PreambleLen == 16
Slash == 47
NULL == 0
NoRequest == -1

UsecPerSec == MsecPerSec * UsecPerMsec

\* "_SENSORCHANNEL_" and its terminating NUL, as character codes.
Preamble == <<95, 83, 69, 78, 83, 79, 82, 67, 72, 65, 78, 78, 69, 76, 95, 0>>

(***************************************************************************)
(* Input domains.                                                          *)
(***************************************************************************)
Handles == 1..MaxConn
\* A pointer value that is no QLocalSocket: what dereferencing end() yields.
Wild == MaxConn + 1
SessionIds == 0..MaxSessionId
\* What the 4-byte read of the handshake can produce.
HandshakeIds == NoSession..MaxSessionId
Payloads == { [i \in 1..n |-> b] : n \in 1..MaxSize, b \in 1..MaxByte }
IntervalValues == {Unlimited} \cup 1..MaxInterval
\* Endpoint names: an absolute path and a plain name.
ServerNames == { <<Slash, 115>>, <<115>> }

\* The clock advances in half-millisecond steps, starting one millisecond
\* before a second boundary so that tv_usec wraps within the bound.
TickUs == UsecPerMsec \div 2
StartUs == 2 * UsecPerSec - UsecPerMsec

(***************************************************************************)
(* A QLocalSocket object, by handle:                                       *)
(*   state         "unused" (not accepted yet), "open", "closed" (the peer *)
(*                 went away), "freed" (deleted)                           *)
(*   readyRead     readyRead() is connected to socketReadable              *)
(*   disconnected  disconnected() is connected to socketDisconnected       *)
(*   frees         history: how often the object was deleted               *)
(*   readId        history: the session id read from it, Unread before     *)
(*   dropped       history: removeSession took it from a channel that held *)
(*                 a buffered payload not written yet                      *)
(***************************************************************************)
Unread == NoSession - 1

VARIABLES
    listening,      \* m_server->isListening()
    stale,          \* environment: a stale socket file exists at the endpoint
    pendingConns,   \* environment: connections waiting in QLocalServer's queue
    sock,           \* the QLocalSocket objects, by handle
    m_idMap,        \* SocketHandler::m_idMap  (sessionId -> SessionData)
    leaked,         \* sockets of SessionData objects no longer in m_idMap but never deleted
    m_tmpSocks,     \* SocketHandler::m_tmpSocks
    killTimers,     \* pending QTimer::singleShot(2000, killSocket) timers
    now,            \* wall clock in microseconds
    crashed,        \* the process has aborted
    aux,            \* history per registered session (not program state)
    out,            \* what the last handler run gave back
    node,           \* the NodeBase objects of the filter chain, by node number
    nodeOut         \* what the last call on a node gave back

sockVars == <<listening, stale, pendingConns, sock, m_idMap, leaked, m_tmpSocks,
              killTimers, now, crashed, aux, out>>

nodeVars == <<node, nodeOut>>

vars == <<sockVars, nodeVars>>

(***************************************************************************)
(* Helpers.                                                                *)
(***************************************************************************)
Max(S) == CHOOSE x \in S : \A y \in S : y <= x

\* The elements of sequence q.
Range(q) == { q[i] : i \in DOMAIN q }

\* C++ integer division: truncation toward zero.
TruncDiv(a, b) == IF a >= 0 THEN a \div b ELSE -((-a) \div b)

\* struct timeval filled in by gettimeofday().
TimeOfDay(us) == [tv_sec |-> us \div UsecPerSec, tv_usec |-> us % UsecPerSec]

\* What one handler run gives back: its return value, its calls of
\* QLocalSocket::write, the lostSession signals it emitted and, for listen,
\* its calls on m_server and of unlink.
Out(ret, writes, lost) ==
    [ret |-> ret, writes |-> writes, lost |-> lost, calls |-> <<>>]

\* One call of QLocalSocket::write.
WireWrite(s, data) == [sock |-> s, data |-> data]

\* QLocalSocket::write fails (returns -1) unless the socket is connected.
SocketWriteOk(s) == sock[s].state = "open"

(***************************************************************************)
(* SessionData                                                             *)
(***************************************************************************)
\* SessionData::SessionData: interval(-1), buffer(0), size(0), lastWrite = {0, 0},
\* the timer constructed but not started.
NewSessionData(s) ==
    [socket |-> s, interval |-> Unlimited, buffer |-> <<>>, size |-> 0,
     lastWrite |-> [tv_sec |-> 0, tv_usec |-> 0], timerActive |-> FALSE]

\* Mutant of SinceLastWrite: a channel never written counts as just written.
SinceLastWriteZero(ch) ==
    IF ch.lastWrite.tv_sec = 0
    THEN 0
    ELSE LET t == TimeOfDay(now)
         IN  (t.tv_sec - ch.lastWrite.tv_sec) * MsecPerSec
             + TruncDiv(t.tv_usec - ch.lastWrite.tv_usec, UsecPerMsec)

\* SessionData::sinceLastWrite, in milliseconds.
SinceLastWrite(ch) ==
    IF ch.lastWrite.tv_sec = 0
    THEN LONG_MAX
    ELSE LET t == TimeOfDay(now)
         IN  (t.tv_sec - ch.lastWrite.tv_sec) * MsecPerSec
             + TruncDiv(t.tv_usec - ch.lastWrite.tv_usec, UsecPerMsec)

\* QTimer::timerId: the id of a running timer, -1 for a timer that is not running.
TimerId(ch) == IF ch.timerActive THEN 1 ELSE -1

\* The pass-through branches of SessionData::write: gettimeofday(&lastWrite)
\* and one socket->write.
PassThrough(ch, data) ==
    [ch     |-> [ch EXCEPT !.lastWrite = TimeOfDay(now)],
     writes |-> <<WireWrite(ch.socket, data)>>,
     ret    |-> SocketWriteOk(ch.socket)]

\* The else branch of SessionData::write: the payload replaces the buffer;
\* timer.start(interval - since) runs only if timerId() != -1.
Buffered(ch, data) ==
    [ch     |-> [ch EXCEPT !.buffer = data, !.size = Len(data),
                           !.timerActive = IF TimerId(ch) # -1 THEN TRUE ELSE @],
     writes |-> <<>>,
     ret    |-> TRUE]

\* Mutant of SessionWrite: the elapsed time is compared with > instead of >=.
SessionWriteStrict(ch, data) ==
    IF ch.interval = Unlimited
    THEN PassThrough(ch, data)
    ELSE IF SinceLastWrite(ch) > ch.interval
         THEN PassThrough(ch, data)
         ELSE Buffered(ch, data)

\* SessionData::write
SessionWrite(ch, data) ==
    IF ch.interval = Unlimited
    THEN PassThrough(ch, data)
    ELSE IF SinceLastWrite(ch) >= ch.interval
         THEN PassThrough(ch, data)
         ELSE Buffered(ch, data)

\* SessionData::delayedWrite
DelayedWrite(ch) ==
    [ch     |-> [ch EXCEPT !.timerActive = FALSE, !.lastWrite = TimeOfDay(now)],
     writes |-> <<WireWrite(ch.socket, SubSeq(ch.buffer, 1, ch.size))>>]

\* SessionData::stealSocket
StealSocket(ch) ==
    [ch |-> [ch EXCEPT !.socket = NullSock], socket |-> ch.socket]

\* SessionData::setInterval
SessionSetInterval(ch, value) == [ch EXCEPT !.interval = value]

\* delete of a QLocalSocket pointer: a null pointer is left alone.
DeleteSocket(socks, s) ==
    IF s = NullSock
    THEN socks
    ELSE [socks EXCEPT ![s].state = "freed", ![s].frees = @ + 1,
                       ![s].readyRead = FALSE, ![s].disconnected = FALSE]

\* SessionData::~SessionData: timer.stop(), delete[] buffer, delete socket.
DestroySessionData(socks, ch) == DeleteSocket(socks, ch.socket)

(***************************************************************************)
(* History kept per registered session.                                   *)
(*   pending  a payload was buffered and nothing was written since         *)
(*   physAt   time (us) of the channel's last socket->write, -1 if none    *)
(*   prevAt   time of the write before that one if the interval was set    *)
(*            (> 0) and not changed between the two, else -1               *)
(*   stable   the interval was not changed since that write                *)
(*   notified lostSession was emitted for this session                     *)
(***************************************************************************)
NewAux ==
    [pending |-> FALSE, physAt |-> -1, prevAt |-> -1, stable |-> TRUE,
     notified |-> FALSE]

AuxAfterWrite(a, r) ==
    IF r.writes # <<>>
    THEN [a EXCEPT !.pending = FALSE, !.physAt = now, !.stable = TRUE,
                   !.prevAt = IF a.stable /\ r.ch.interval > 0 THEN a.physAt ELSE -1]
    ELSE [a EXCEPT !.pending = TRUE]

\* Mutant of Without: the key stays in the map.
WithoutKeeps(m, k) == m

\* m with key k removed.
Without(m, k) == [x \in DOMAIN m \ {k} |-> m[x]]
\* m with key k bound to v.
With(m, k, v) == [x \in DOMAIN m \cup {k} |-> IF x = k THEN v ELSE m[x]]

Quiet == Out(TRUE, <<>>, <<>>)

NoSockets ==
    [h \in Handles |->
       [state |-> "unused", readyRead |-> FALSE, disconnected |-> FALSE, frees |-> 0,
        readId |-> Unread, dropped |-> FALSE]]

\* The process aborts: its objects are gone with it.  now is left alone.
Abort ==
    /\ crashed' = TRUE
    /\ listening' = FALSE
    /\ stale' = FALSE
    /\ pendingConns' = 0
    /\ sock' = NoSockets
    /\ m_idMap' = <<>>
    /\ leaked' = {}
    /\ m_tmpSocks' = <<>>
    /\ killTimers' = 0
    /\ aux' = <<>>
    /\ out' = Out(FALSE, <<>>, <<>>)

(***************************************************************************)
(* NodeBase (src/sensord/nodebase.h).  The header declares the members and *)
(* the operations; their bodies are modelled from the specification.       *)
(*   m_dataRangeList       the ranges introduced locally, in order         *)
(*   m_dataRangeQueue      the range requests, oldest first                *)
(*   m_dataRangeSource     the node ranges are delegated to, or NULL       *)
(*   m_standbySourceList   the upstream nodes of the standby aggregation   *)
(*   m_standbyRequestList  the sessions that request standbyOverride       *)
(*   constructed           the node's constructor has ended                *)
(*   valid                 what isMetadataValid() returned at its end      *)
(***************************************************************************)
Nodes == 1..MaxNodes
\* The nodes that take part in range negotiation.
RangeNodes == 1..MaxRangeNodes
NodeSessions == 0..MaxNodeSession
Ranges == 1..MaxRange

\* NodeBase::NodeBase: m_dataRangeSource(NULL), every list empty.
FreshNode ==
    [m_dataRangeList |-> <<>>, m_dataRangeQueue |-> <<>>, m_dataRangeSource |-> NULL,
     m_standbySourceList |-> <<>>, m_standbyRequestList |-> {},
     constructed |-> FALSE, valid |-> FALSE]

\* What a call on a node gives back: its return value (TRUE for a void
\* call), the requests its setDataRange hook was invoked for, and whether
\* the call dropped the request it was given.
NodeOut(ret, hooks, dropped) == [ret |-> ret, hooks |-> hooks, dropped |-> dropped]

NodeQuiet == NodeOut(TRUE, <<>>, FALSE)

Init ==
    /\ node = [n \in Nodes |-> FreshNode]
    /\ nodeOut = NodeQuiet
    /\ listening = FALSE
    /\ stale \in BOOLEAN
    /\ pendingConns = 0
    /\ sock = NoSockets
    /\ m_idMap = <<>>
    /\ leaked = {}
    /\ m_tmpSocks = <<>>
    /\ killTimers = 0
    /\ now = StartUs
    /\ crashed = FALSE
    /\ aux = <<>>
    /\ out = Quiet

(***************************************************************************)
(* SocketHandler                                                           *)
(***************************************************************************)
\* Mutant of Write: a write to a session that is not there reports success.
WriteIgnoresMissing(id, data) ==
    /\ ~crashed
    /\ IF id \notin DOMAIN m_idMap
       THEN /\ out' = Out(TRUE, <<>>, <<>>)
            /\ UNCHANGED <<m_idMap, aux>>
       ELSE LET r == SessionWrite(m_idMap[id], data)
            IN  /\ m_idMap' = [m_idMap EXCEPT ![id] = r.ch]
                /\ aux' = [aux EXCEPT ![id] = AuxAfterWrite(@, r)]
                /\ out' = Out(r.ret, r.writes, <<>>)
    /\ UNCHANGED <<listening, stale, pendingConns, sock, leaked, m_tmpSocks,
                   killTimers, now, crashed>>
    /\ UNCHANGED nodeVars

\* SocketHandler::write
Write(id, data) ==
    /\ ~crashed
    /\ IF id \notin DOMAIN m_idMap
       THEN /\ out' = Out(FALSE, <<>>, <<>>)
            /\ UNCHANGED <<m_idMap, aux>>
       ELSE LET r == SessionWrite(m_idMap[id], data)
            IN  /\ m_idMap' = [m_idMap EXCEPT ![id] = r.ch]
                /\ aux' = [aux EXCEPT ![id] = AuxAfterWrite(@, r)]
                /\ out' = Out(r.ret, r.writes, <<>>)
    /\ UNCHANGED <<listening, stale, pendingConns, sock, leaked, m_tmpSocks,
                   killTimers, now, crashed>>
    /\ UNCHANGED nodeVars

\* SocketHandler::setInterval
SetInterval(id, value) ==
    /\ ~crashed
    /\ IF id \in DOMAIN m_idMap
       THEN /\ m_idMap' = [m_idMap EXCEPT ![id] = SessionSetInterval(@, value)]
            /\ aux' = [aux EXCEPT ![id].stable = @ /\ (value = m_idMap[id].interval)]
       ELSE UNCHANGED <<m_idMap, aux>>
    /\ out' = Out(TRUE, <<>>, <<>>)
    /\ UNCHANGED <<listening, stale, pendingConns, sock, leaked, m_tmpSocks,
                   killTimers, now, crashed>>
    /\ UNCHANGED nodeVars

\* SocketHandler::clearInterval: m_idMap.erase(it) takes the entry out of the
\* map; the SessionData it pointed to is not deleted.
ClearInterval(id) ==
    /\ ~crashed
    /\ IF id \in DOMAIN m_idMap
       THEN /\ m_idMap' = Without(m_idMap, id)
            /\ aux' = Without(aux, id)
            /\ leaked' = leaked \cup {m_idMap[id].socket}
       ELSE UNCHANGED <<m_idMap, aux, leaked>>
    /\ out' = Out(TRUE, <<>>, <<>>)
    /\ UNCHANGED <<listening, stale, pendingConns, sock, m_tmpSocks,
                   killTimers, now, crashed>>
    /\ UNCHANGED nodeVars

\* Time passes.
Tick ==
    /\ ~crashed
    /\ now < StartUs + MaxTicks * TickUs
    /\ now' = now + TickUs
    /\ out' = Out(TRUE, <<>>, <<>>)
    /\ UNCHANGED <<listening, stale, pendingConns, sock, m_idMap, leaked,
                   m_tmpSocks, killTimers, crashed, aux>>
    /\ UNCHANGED nodeVars

\* What one bind attempt of QLocalServer::listen yields: the address is in use
\* while a socket file of an earlier run is still there.
BindOk(staleFile) == ~staleFile

\* The condition of the while loop of SocketHandler::listen, bindOk being what
\* m_server->listen(serverName) just returned.  Mutant: the name is not looked at.
RetryAnyName(bindOk, unlinkDone, serverName) ==
    ~bindOk /\ ~unlinkDone

\* The condition of the while loop of SocketHandler::listen.
Retry(bindOk, unlinkDone, serverName) ==
    ~bindOk /\ ~unlinkDone /\ serverName[1] = Slash

\* The while loop of SocketHandler::listen: every evaluation of its condition
\* binds; the body unlinks and sets unlinkDone.  unlinkOk is what unlink()
\* returns (0 or not); calls collects the calls made.
RECURSIVE ListenLoop(_, _, _, _, _)
ListenLoop(staleFile, unlinkDone, serverName, unlinkOk, calls) ==
    IF Retry(BindOk(staleFile), unlinkDone, serverName)
    THEN ListenLoop(staleFile /\ ~unlinkOk, TRUE, serverName, unlinkOk,
                    calls \o <<"listen", "unlink">>)
    ELSE [stale |-> staleFile, listening |-> BindOk(staleFile),
          calls |-> calls \o <<"listen">>]

\* SocketHandler::listen
Listen(serverName, unlinkOk) ==
    /\ ~crashed
    /\ IF listening
       THEN /\ UNCHANGED <<listening, stale>>
            /\ out' = [Out(FALSE, <<>>, <<>>) EXCEPT !.calls = <<"isListening">>]
       ELSE LET r == ListenLoop(stale, FALSE, serverName, unlinkOk, <<"isListening">>)
            IN  /\ listening' = r.listening
                /\ stale' = r.stale
                /\ out' = [Out(r.listening, <<>>, <<>>)
                             EXCEPT !.calls = r.calls \o <<"isListening">>]
    /\ UNCHANGED <<pendingConns, sock, m_idMap, leaked, m_tmpSocks, killTimers,
                   now, crashed, aux>>
    /\ UNCHANGED nodeVars

UnusedHandles == { h \in Handles : sock[h].state = "unused" }

\* Environment: a client connects to the listening endpoint.
ClientConnect ==
    /\ ~crashed
    /\ listening
    /\ pendingConns < Cardinality(UnusedHandles)
    /\ pendingConns' = pendingConns + 1
    /\ out' = Out(TRUE, <<>>, <<>>)
    /\ UNCHANGED <<listening, stale, sock, m_idMap, leaked, m_tmpSocks, killTimers,
                   now, crashed, aux>>
    /\ UNCHANGED nodeVars

\* The n lowest unused handles, in the order nextPendingConnection returns them.
RECURSIVE Accepted(_, _)
Accepted(free, n) ==
    IF n = 0 \/ free = {}
    THEN <<>>
    ELSE LET h == CHOOSE x \in free : \A y \in free : x <= y
         IN  <<h>> \o Accepted(free \ {h}, n - 1)

\* SocketHandler::newConnection: every pending connection is accepted, both
\* signals are connected and the 16-byte preamble is written.
NewConnection ==
    /\ ~crashed
    /\ pendingConns > 0
    /\ LET acc == Accepted(UnusedHandles, pendingConns)
           got == { acc[i] : i \in 1..Len(acc) }
       IN  /\ sock' = [h \in Handles |->
                         IF h \in got
                         THEN [state |-> "open", readyRead |-> TRUE,
                               disconnected |-> TRUE, frees |-> 0, readId |-> Unread,
                               dropped |-> FALSE]
                         ELSE sock[h]]
           /\ out' = Out(TRUE, [i \in 1..Len(acc) |-> WireWrite(acc[i], SubSeq(Preamble, 1, PreambleLen))], <<>>)
    /\ pendingConns' = 0
    /\ UNCHANGED <<listening, stale, m_idMap, leaked, m_tmpSocks, killTimers,
                   now, crashed, aux>>
    /\ UNCHANGED nodeVars

\* Mutant of Registered: the insert is done without the contains() test, so
\* QMap::insert replaces the entry of an id that is already there.
RegisteredOverwrites(map, sessionId, s) ==
    With(map, sessionId, NewSessionData(s))

\* The map after the handshake read sessionId >= 0 from socket s:
\* inserted only if the id is not there yet.
Registered(map, sessionId, s) ==
    IF sessionId \notin DOMAIN map
    THEN With(map, sessionId, NewSessionData(s))
    ELSE map

\* Mutant of SocketReadable: readyRead() stays connected after the read.
SocketReadableStaysConnected(s, sessionId, assertsEnabled) ==
    /\ ~crashed
    /\ sock[s].state = "open"
    /\ sock[s].readyRead
    /\ IF sessionId >= 0
       THEN /\ sock' = [sock EXCEPT ![s].readId = sessionId]
            /\ m_idMap' = Registered(m_idMap, sessionId, s)
            /\ aux' = IF sessionId \notin DOMAIN m_idMap
                      THEN With(aux, sessionId, NewAux)
                      ELSE aux
            /\ out' = Out(TRUE, <<>>, <<>>)
            /\ UNCHANGED <<listening, stale, pendingConns, leaked, m_tmpSocks,
                           killTimers, crashed>>
       ELSE IF assertsEnabled
            THEN Abort
            ELSE /\ sock' = [sock EXCEPT ![s].readId = sessionId]
                 /\ out' = Out(TRUE, <<>>, <<>>)
                 /\ UNCHANGED <<listening, stale, pendingConns, m_idMap, leaked,
                                m_tmpSocks, killTimers, crashed, aux>>
    /\ UNCHANGED now
    /\ UNCHANGED nodeVars

\* SocketHandler::socketReadable, run for socket s whose first data reads as
\* sessionId.  assertsEnabled is the build: Q_ASSERT(false) aborts when
\* assertions are compiled in and is empty under QT_NO_DEBUG.
SocketReadable(s, sessionId, assertsEnabled) ==
    /\ ~crashed
    /\ sock[s].state = "open"
    /\ sock[s].readyRead
    /\ IF sessionId >= 0
       THEN /\ sock' = [sock EXCEPT ![s].readyRead = FALSE, ![s].readId = sessionId]
            /\ m_idMap' = Registered(m_idMap, sessionId, s)
            /\ aux' = IF sessionId \notin DOMAIN m_idMap
                      THEN With(aux, sessionId, NewAux)
                      ELSE aux
            /\ out' = Out(TRUE, <<>>, <<>>)
            /\ UNCHANGED <<listening, stale, pendingConns, leaked, m_tmpSocks,
                           killTimers, crashed>>
       ELSE IF assertsEnabled
            THEN Abort
            ELSE /\ sock' = [sock EXCEPT ![s].readyRead = FALSE, ![s].readId = sessionId]
                 /\ out' = Out(TRUE, <<>>, <<>>)
                 /\ UNCHANGED <<listening, stale, pendingConns, m_idMap, leaked,
                                m_tmpSocks, killTimers, crashed, aux>>
    /\ UNCHANGED now
    /\ UNCHANGED nodeVars

\* Mutant of LookupSession: sessionId starts at 0 instead of -1.
LookupSessionFromZero(map, s) ==
    LET owners == { id \in DOMAIN map : map[id].socket = s }
    IN  IF owners = {} THEN 0 ELSE Max(owners)

\* Mutant of LookupSession: the scan does not compare the socket, so the
\* last key of the map stays in sessionId.
LookupSessionAnySocket(map, s) ==
    IF DOMAIN map = {} THEN NoSession ELSE Max(DOMAIN map)

\* The scan of SocketHandler::socketDisconnected: the loop runs over the whole
\* map in key order without a break, so the last match stays in sessionId.
LookupSession(map, s) ==
    LET owners == { id \in DOMAIN map : map[id].socket = s }
    IN  IF owners = {} THEN NoSession ELSE Max(owners)

\* The lostSession signals SocketHandler::socketDisconnected emits for sender s.
LostSessions(map, s) ==
    IF LookupSession(map, s) = NoSession
    THEN <<>>
    ELSE <<LookupSession(map, s)>>

\* The peer of socket s goes away; QLocalSocket emits disconnected(), which
\* runs SocketHandler::socketDisconnected if the signal is still connected.
SocketDisconnected(s) ==
    /\ ~crashed
    /\ sock[s].state = "open"
    /\ sock' = [sock EXCEPT ![s].state = "closed"]
    /\ LET lost == IF sock[s].disconnected THEN LostSessions(m_idMap, s) ELSE <<>>
       IN  /\ aux' = [id \in DOMAIN aux |->
                        IF lost = <<id>> THEN [aux[id] EXCEPT !.notified = TRUE]
                        ELSE aux[id]]
           /\ out' = Out(TRUE, <<>>, lost)
    /\ UNCHANGED <<listening, stale, pendingConns, m_idMap, leaked, m_tmpSocks,
                   killTimers, now, crashed>>
    /\ UNCHANGED nodeVars

\* What removeSession can do for an id that is not in the map.  It evaluates
\* (*m_idMap.find(sessionId))->stealSocket() on end(): undefined behaviour.
\*   "crash"  the read through the garbage SessionData pointer faults
\*   "null"   the garbage object's socket field reads as 0
\*   "wild"   it reads as some other value, which is then treated as a socket
UnknownOutcomes == {"crash", "null", "wild"}

\* SocketHandler::removeSession
RemoveSession(sessionId, outcome) ==
    /\ ~crashed
    /\ IF sessionId \in DOMAIN m_idMap
       THEN LET st == StealSocket(m_idMap[sessionId])
                detached ==
                    IF st.socket # NullSock
                    THEN [sock EXCEPT ![st.socket].readyRead = FALSE,
                                      ![st.socket].disconnected = FALSE,
                                      ![st.socket].dropped = aux[sessionId].pending]
                    ELSE sock
            IN  /\ outcome = "null"
                /\ m_tmpSocks' = IF st.socket # NullSock
                                 THEN Append(m_tmpSocks, st.socket)
                                 ELSE m_tmpSocks
                /\ killTimers' = IF st.socket # NullSock
                                 THEN killTimers + 1
                                 ELSE killTimers
                \* delete m_idMap.take(sessionId)
                /\ sock' = DestroySessionData(detached, st.ch)
                /\ m_idMap' = Without(m_idMap, sessionId)
                /\ aux' = Without(aux, sessionId)
                /\ out' = Out(TRUE, <<>>, <<>>)
                /\ UNCHANGED <<listening, stale, pendingConns, leaked, crashed>>
       ELSE CASE outcome = "crash" -> Abort
              [] outcome = "null" ->
                 \* take() of a missing key returns a null pointer; delete leaves it alone
                 /\ out' = Out(TRUE, <<>>, <<>>)
                 /\ UNCHANGED <<listening, stale, pendingConns, leaked, sock, m_idMap,
                                aux, m_tmpSocks, killTimers, crashed>>
              [] outcome = "wild" ->
                 /\ Cardinality({ i \in DOMAIN m_tmpSocks : m_tmpSocks[i] = Wild }) < MaxWild
                 /\ m_tmpSocks' = Append(m_tmpSocks, Wild)
                 /\ killTimers' = killTimers + 1
                 /\ out' = Out(TRUE, <<>>, <<>>)
                 /\ UNCHANGED <<listening, stale, pendingConns, leaked, sock, m_idMap,
                                aux, crashed>>
    /\ UNCHANGED now
    /\ UNCHANGED nodeVars

\* SocketHandler::killSocket, run by one of the single-shot timers.  Deleting
\* a pointer that is no socket is undefined: it faults (wildFaults) or passes.
KillSocket(wildFaults) ==
    IF Len(m_tmpSocks) > 0
    THEN IF Head(m_tmpSocks) = Wild /\ wildFaults
         THEN Abort
         ELSE /\ m_tmpSocks' = Tail(m_tmpSocks)
              /\ sock' = IF Head(m_tmpSocks) = Wild
                         THEN sock
                         ELSE DeleteSocket(sock, Head(m_tmpSocks))
              /\ killTimers' = killTimers - 1
              /\ out' = Out(TRUE, <<>>, <<>>)
              /\ UNCHANGED <<listening, stale, pendingConns, leaked, m_idMap, aux,
                             crashed>>
    ELSE /\ killTimers' = killTimers - 1
         /\ out' = Out(TRUE, <<>>, <<>>)
         /\ UNCHANGED <<listening, stale, pendingConns, leaked, m_idMap, aux,
                        m_tmpSocks, sock, crashed>>

\* The timeout of session sessionId's timer runs SessionData::delayedWrite.
DelayedWriteFires(sessionId) ==
    LET r == DelayedWrite(m_idMap[sessionId])
    IN  /\ m_idMap' = [m_idMap EXCEPT ![sessionId] = r.ch]
        /\ aux' = [aux EXCEPT ![sessionId] = AuxAfterWrite(@, r)]
        /\ out' = Out(TRUE, r.writes, <<>>)
        /\ UNCHANGED <<listening, stale, pendingConns, leaked, sock, m_tmpSocks,
                       killTimers, crashed>>

\* The timers the event loop holds: the single-shot timers of removeSession
\* and the timer of every SessionData whose timer is running.
ActiveTimers ==
    { <<"kill", NoSession>> : k \in 1..killTimers }
    \cup { <<"delayed", id>> : id \in { i \in DOMAIN m_idMap : m_idMap[i].timerActive } }

\* The event loop delivers the timeout of one active timer to its slot.
TimerTimeout ==
    /\ ~crashed
    /\ \E t \in ActiveTimers, wildFaults \in BOOLEAN :
          IF t[1] = "kill" THEN KillSocket(wildFaults) ELSE DelayedWriteFires(t[2])
    /\ UNCHANGED now
    /\ UNCHANGED nodeVars

Next ==
    \/ \E name \in ServerNames, unlinkOk \in BOOLEAN : Listen(name, unlinkOk)
    \/ ClientConnect
    \/ NewConnection
    \/ \E s \in Handles, id \in HandshakeIds, assertsEnabled \in BOOLEAN :
          SocketReadable(s, id, assertsEnabled)
    \/ \E s \in Handles : SocketDisconnected(s)
    \/ \E id \in SessionIds, data \in Payloads : Write(id, data)
    \/ \E id \in SessionIds, value \in IntervalValues : SetInterval(id, value)
    \/ \E id \in SessionIds : ClearInterval(id)
    \/ \E id \in SessionIds, outcome \in UnknownOutcomes : RemoveSession(id, outcome)
    \/ TimerTimeout
    \/ Tick

Spec == Init /\ [][Next]_vars

(***************************************************************************)
(* NodeBase: construction                                                  *)
(***************************************************************************)
\* NodeBase::introduceAvailableDataRange, used during construction only.
IntroduceAvailableDataRange(n, range) ==
    /\ ~node[n].constructed
    /\ Len(node[n].m_dataRangeList) < MaxList
    /\ node' = [node EXCEPT ![n].m_dataRangeList = Append(@, range)]
    /\ nodeOut' = NodeQuiet
    /\ UNCHANGED sockVars

\* NodeBase::setRangeSource: the source is a node of the previous layer,
\* which was constructed before.
SetRangeSource(n, src) ==
    /\ ~node[n].constructed
    /\ src < n
    /\ node[src].constructed
    /\ node' = [node EXCEPT ![n].m_dataRangeSource = src]
    /\ nodeOut' = NodeQuiet
    /\ UNCHANGED sockVars

\* NodeBase::addStandbyOverrideSource, used during construction only.
AddStandbyOverrideSource(n, src) ==
    /\ ~node[n].constructed
    /\ src < n
    /\ node[src].constructed
    /\ src \notin Range(node[n].m_standbySourceList)
    /\ node' = [node EXCEPT ![n].m_standbySourceList = Append(@, src)]
    /\ nodeOut' = NodeQuiet
    /\ UNCHANGED sockVars

\* NodeBase::hasLocalRange
HasLocalRange(n) == node[n].m_dataRangeList # <<>>

\* Mutant of IsMetadataValid: one of the two conditions is enough.
IsMetadataValidEither(n) ==
    HasLocalRange(n) \/ node[n].m_dataRangeSource # NULL

\* NodeBase::isMetadataValid: exactly one of a local range and a range source.
IsMetadataValid(n) ==
    HasLocalRange(n) # (node[n].m_dataRangeSource # NULL)

\* The end of a node's constructor, where isMetadataValid() is called.
FinishConstruction(n) ==
    /\ ~node[n].constructed
    /\ node' = [node EXCEPT ![n].constructed = TRUE, ![n].valid = IsMetadataValid(n)]
    /\ nodeOut' = NodeOut(IsMetadataValid(n), <<>>, FALSE)
    /\ UNCHANGED sockVars

(***************************************************************************)
(* NodeBase: range negotiation                                             *)
(***************************************************************************)
\* NodeBase::getAvailableDataRanges: the local list if there is one, else
\* the list of the range source.
RECURSIVE GetAvailableDataRanges(_)
GetAvailableDataRanges(n) ==
    IF HasLocalRange(n)
    THEN node[n].m_dataRangeList
    ELSE IF node[n].m_dataRangeSource # NULL
         THEN GetAvailableDataRanges(node[n].m_dataRangeSource)
         ELSE <<>>

\* The request getCurrentDataRange returns for an empty queue: id -1 and the
\* node's default range, the first available one (NULL if there is none).
NoRangeRequest(n) ==
    [id |-> NoRequest,
     range |-> IF GetAvailableDataRanges(n) # <<>>
               THEN Head(GetAvailableDataRanges(n))
               ELSE NULL]

\* Mutant of GetCurrentDataRange: the newest request is the active one.
GetCurrentDataRangeNewest(n) ==
    IF node[n].m_dataRangeQueue = <<>>
    THEN NoRangeRequest(n)
    ELSE node[n].m_dataRangeQueue[Len(node[n].m_dataRangeQueue)]

\* NodeBase::getCurrentDataRange
GetCurrentDataRange(n) ==
    IF node[n].m_dataRangeQueue = <<>>
    THEN NoRangeRequest(n)
    ELSE Head(node[n].m_dataRangeQueue)

\* Mutant of IsValidRange: every range is taken.
IsValidRangeAlways(n, range) == TRUE

\* The validation of requestDataRange: the range is one of the available ones.
IsValidRange(n, range) == range \in Range(GetAvailableDataRanges(n))

\* How requestDataRange may treat a session that has a request in the queue
\* already, the queue keeping one entry per session: the range of its entry
\* is replaced, its entry is taken out and the new one appended, or the new
\* request is dropped.
RepeatOutcomes == {"replace", "requeue", "ignore"}

\* The queue after a valid request of a session.
Requested(q, sessionId, range, repeat) ==
    IF \A i \in DOMAIN q : q[i].id # sessionId
    THEN Append(q, [id |-> sessionId, range |-> range])
    ELSE CASE repeat = "replace" ->
                [i \in DOMAIN q |->
                   IF q[i].id = sessionId THEN [q[i] EXCEPT !.range = range] ELSE q[i]]
           [] repeat = "requeue" ->
                Append(SelectSeq(q, LAMBDA e : e.id # sessionId),
                       [id |-> sessionId, range |-> range])
           [] repeat = "ignore" -> q

\* The requests the setDataRange hook runs for when the queue goes from q to
\* q2: the new head, if the head changed and there is one.
HookCalls(q, q2) ==
    IF q2 # <<>> /\ (q = <<>> \/ Head(q) # Head(q2)) THEN <<Head(q2)>> ELSE <<>>

\* NodeBase::requestDataRange.  repeat is the treatment of a session that is
\* queued already; for any other request it plays no part.
RequestDataRange(n, sessionId, range, repeat) ==
    /\ node[n].constructed
    /\ (\A i \in DOMAIN node[n].m_dataRangeQueue :
          node[n].m_dataRangeQueue[i].id # sessionId) => repeat = "replace"
    /\ IF IsValidRange(n, range)
       THEN LET q  == node[n].m_dataRangeQueue
                q2 == Requested(q, sessionId, range, repeat)
            IN  /\ node' = [node EXCEPT ![n].m_dataRangeQueue = q2]
                /\ nodeOut' = NodeOut(TRUE, HookCalls(q, q2), FALSE)
       ELSE /\ UNCHANGED node
            /\ nodeOut' = NodeOut(TRUE, <<>>, TRUE)
    /\ UNCHANGED sockVars

\* NodeBase::removeDataRangeRequest
RemoveDataRangeRequest(n, sessionId) ==
    /\ node[n].constructed
    /\ LET q  == node[n].m_dataRangeQueue
           q2 == SelectSeq(q, LAMBDA e : e.id # sessionId)
       IN  /\ node' = [node EXCEPT ![n].m_dataRangeQueue = q2]
           /\ nodeOut' = NodeOut(TRUE, HookCalls(q, q2), FALSE)
    /\ UNCHANGED sockVars

(***************************************************************************)
(* NodeBase: standbyOverride                                               *)
(***************************************************************************)
\* Mutant of StandbyOverrideOf: the upstream nodes are not asked.
StandbyOverrideLocalOnly(nodes, n) == nodes[n].m_standbyRequestList # {}

\* NodeBase::standbyOverride over the nodes given: the node has a request of
\* its own and every upstream node reports true.
RECURSIVE StandbyOverrideOf(_, _)
StandbyOverrideOf(nodes, n) ==
    /\ nodes[n].m_standbyRequestList # {}
    /\ \A i \in DOMAIN nodes[n].m_standbySourceList :
          StandbyOverrideOf(nodes, nodes[n].m_standbySourceList[i])

\* NodeBase::standbyOverride
StandbyOverride(n) == StandbyOverrideOf(node, n)

\* NodeBase::setStandbyOverrideRequest
SetStandbyOverrideRequest(n, sessionId, override) ==
    /\ node[n].constructed
    /\ LET after == [node EXCEPT ![n].m_standbyRequestList =
                                  IF override THEN @ \cup {sessionId} ELSE @ \ {sessionId}]
       IN  /\ node' = after
           /\ nodeOut' = NodeOut(StandbyOverrideOf(after, n), <<>>, FALSE)
    /\ UNCHANGED sockVars

\* The nodes as constructed, with a socket handler that is left alone.
NodeInit == Init /\ ~stale

\* Range negotiation on the nodes of a chain.
RangeNext ==
    \/ \E n \in RangeNodes, range \in Ranges : IntroduceAvailableDataRange(n, range)
    \/ \E n \in RangeNodes, src \in RangeNodes : SetRangeSource(n, src)
    \/ \E n \in RangeNodes : FinishConstruction(n)
    \/ \E n \in RangeNodes, sessionId \in NodeSessions, range \in Ranges,
           repeat \in RepeatOutcomes : RequestDataRange(n, sessionId, range, repeat)
    \/ \E n \in RangeNodes, sessionId \in NodeSessions : RemoveDataRangeRequest(n, sessionId)

RangeSpec == NodeInit /\ [][RangeNext]_vars

\* standbyOverride requests on the nodes of a fan-in.
StandbyNext ==
    \/ \E n \in Nodes, src \in Nodes : AddStandbyOverrideSource(n, src)
    \/ \E n \in Nodes : FinishConstruction(n)
    \/ \E n \in Nodes, sessionId \in NodeSessions, override \in BOOLEAN :
          SetStandbyOverrideRequest(n, sessionId, override)

StandbySpec == NodeInit /\ [][StandbyNext]_vars

(***************************************************************************)
(* Claims                                                                  *)
(***************************************************************************)
\* The registered sessions whose SessionData holds socket s.
Owners(s) == { id \in DOMAIN m_idMap : m_idMap[id].socket = s }

\* C1 (as claimed): a payload buffered on a registered channel is eventually
\* written; for that, whenever a channel holds a buffered payload that has not
\* been written, its deferred-write timer is armed.
C1_BufferedPayloadHasTimer ==
    \A id \in DOMAIN m_idMap :
        aux[id].pending => m_idMap[id].timerActive

\* C2 (as claimed): two consecutive physical writes of one channel, with the
\* interval I > 0 unchanged between them, are at least I milliseconds apart.
C2_WritesAtLeastIntervalApart ==
    \A id \in DOMAIN m_idMap :
        (aux[id].prevAt >= 0 /\ aux[id].stable /\ m_idMap[id].interval > 0)
            => aux[id].physAt - aux[id].prevAt >= m_idMap[id].interval * UsecPerMsec

\* C3: a write() on a channel whose interval is -1, or whose last physical
\* write lies at least interval milliseconds back, performs exactly one
\* socket write, of the payload given, within the call, returns whether the
\* socket took it, and leaves buffer, size and timer as they were.
C3_PassThroughWritesOnce ==
    [][\A id \in SessionIds, data \in Payloads :
          (/\ id \in DOMAIN m_idMap
           /\ \/ m_idMap[id].interval = Unlimited
              \/ /\ aux[id].physAt >= 0
                 /\ now - aux[id].physAt >= m_idMap[id].interval * UsecPerMsec
           /\ Write(id, data))
          => /\ out'.writes = <<WireWrite(m_idMap[id].socket, data)>>
             /\ out'.ret = SocketWriteOk(m_idMap[id].socket)
             /\ m_idMap'[id].buffer = m_idMap[id].buffer
             /\ m_idMap'[id].size = m_idMap[id].size
             /\ m_idMap'[id].timerActive = m_idMap[id].timerActive
             /\ ~aux'[id].pending]_vars

\* C3 witness: a channel with an interval set has just written a payload
\* straight through, at least the interval after its previous write, while an
\* older payload still sits in its buffer.
C3_Witness ==
    \E id \in DOMAIN m_idMap :
        /\ m_idMap[id].interval > 0
        /\ aux[id].stable
        /\ aux[id].prevAt >= 0
        /\ aux[id].physAt = now
        /\ aux[id].physAt - aux[id].prevAt >= m_idMap[id].interval * UsecPerMsec
        /\ m_idMap[id].buffer # <<>>
        /\ Len(out.writes) = 1
        /\ out.writes[1].sock = m_idMap[id].socket

\* C4 (as claimed): removeSession(id) for an id that is not registered is a
\* safe no-op: the map, the holding area and the sockets stay as they are,
\* no timer is armed and the process goes on.
C4_RemoveUnknownIsNoOp ==
    [][\A id \in SessionIds, outcome \in UnknownOutcomes :
          (id \notin DOMAIN m_idMap /\ RemoveSession(id, outcome))
          => /\ ~crashed'
             /\ m_idMap' = m_idMap
             /\ m_tmpSocks' = m_tmpSocks
             /\ killTimers' = killTimers
             /\ sock' = sock]_vars

\* C5 (as claimed): clearInterval(id) leaves the set of registered sessions
\* as it is and takes the rate limit off the channel, so that a later write
\* still reaches the channel; on an unknown id setInterval and clearInterval
\* change nothing.
C5_ClearIntervalKeepsSession ==
    [][\A id \in SessionIds :
          /\ ClearInterval(id)
                => /\ DOMAIN m_idMap' = DOMAIN m_idMap
                   /\ id \in DOMAIN m_idMap => m_idMap'[id].interval = Unlimited
                   /\ \A o \in DOMAIN m_idMap \ {id} : m_idMap'[o] = m_idMap[o]
          /\ \A value \in IntervalValues :
                (id \notin DOMAIN m_idMap /\ SetInterval(id, value))
                => m_idMap' = m_idMap]_vars

\* C6: when socketDisconnected runs for the socket of a registered session,
\* one lostSession signal is emitted and it carries that session's id; when
\* no registered session holds the socket, none is emitted.
C6_LostSessionNamesOwner ==
    [][\A s \in Handles :
          SocketDisconnected(s)
          => IF Owners(s) = {}
             THEN out'.lost = <<>>
             ELSE \E id \in Owners(s) : Owners(s) = {id} /\ out'.lost = <<id>>]_vars

\* C6 witness: a registered session's socket is closed and lostSession was
\* just emitted with its id.
C6_Witness ==
    \E id \in DOMAIN m_idMap :
        /\ out.lost = <<id>>
        /\ sock[m_idMap[id].socket].state = "closed"

\* The sockets handed to the holding area or deleted: those of removed sessions.
Removed(s) == s \in Range(m_tmpSocks) \/ sock[s].state = "freed"

\* C7: every lostSession signal is for a session that is registered at that
\* moment, whose socket was not handed over by removeSession, and for which
\* no lostSession was emitted before; one step emits at most one.
C7_LostSessionAtMostOnce ==
    [][\A i \in DOMAIN out'.lost :
          /\ Len(out'.lost) = 1
          /\ out'.lost[i] \in DOMAIN m_idMap
          /\ ~aux[out'.lost[i]].notified
          /\ ~Removed(m_idMap[out'.lost[i]].socket)
          /\ sock[m_idMap[out'.lost[i]].socket].state = "open"]_vars

\* C7 witness: one session was notified as lost and is still registered,
\* while the socket of a removed session sits closed in the holding area and
\* the last handler emitted nothing.
C7_Witness ==
    /\ out.lost = <<>>
    /\ \E id \in DOMAIN aux : aux[id].notified
    /\ \E s \in Handles : s \in Range(m_tmpSocks) /\ sock[s].state = "closed"

\* C8: a handshake that reads a non-negative id not in the map registers a
\* new channel holding the socket it came from and changes no other entry; a
\* handshake that reads an id already in the map leaves the map as it is.
C8_FirstWriterWins ==
    [][\A s \in Handles, sessionId \in SessionIds, assertsEnabled \in BOOLEAN :
          SocketReadable(s, sessionId, assertsEnabled)
          => IF sessionId \in DOMAIN m_idMap
             THEN m_idMap' = m_idMap
             ELSE /\ DOMAIN m_idMap' = DOMAIN m_idMap \cup {sessionId}
                  /\ m_idMap'[sessionId] = NewSessionData(s)
                  /\ \A o \in DOMAIN m_idMap : m_idMap'[o] = m_idMap[o]]_vars

\* C8 witness: two connections sent the same id; the id is bound to one of
\* them, and the other one, neither removed nor leaked, holds no session.
C8_Witness ==
    \E id \in DOMAIN m_idMap, s \in Handles :
        /\ sock[s].readId = id
        /\ sock[m_idMap[id].socket].readId = id
        /\ m_idMap[id].socket # s
        /\ sock[s].state = "open"
        /\ ~Removed(s)
        /\ s \notin leaked

\* C9 (as claimed): a handshake that reads a negative id registers nothing
\* and ends with the process aborted or the connection dropped, whatever the
\* build.
C9_NegativeHandshakeSurfaced ==
    [][\A s \in Handles, assertsEnabled \in BOOLEAN :
          SocketReadable(s, NoSession, assertsEnabled)
          => /\ DOMAIN m_idMap' \subseteq DOMAIN m_idMap
             /\ crashed' \/ sock'[s].state # "open"]_vars

\* How often socket s is in the holding area.
InTmpSocks(s) == Cardinality({ i \in DOMAIN m_tmpSocks : m_tmpSocks[i] = s })

\* C10 (as claimed): a socket that was given to a SessionData and is not
\* deleted yet is held either by exactly one registered channel or once by
\* the holding area, never by both; a deleted socket is held by neither, and
\* no socket is deleted twice.
C10_ExclusiveOwnership ==
    \A s \in Handles :
        /\ sock[s].frees <= 1
        /\ sock[s].state = "freed" => Owners(s) = {} /\ InTmpSocks(s) = 0
        /\ (/\ sock[s].state \in {"open", "closed"}
            /\ s \in leaked \/ Owners(s) # {} \/ InTmpSocks(s) > 0)
           => \/ Cardinality(Owners(s)) = 1 /\ InTmpSocks(s) = 0
              \/ Owners(s) = {} /\ InTmpSocks(s) = 1

\* C11: removeSession of a registered session takes its entry out of the map,
\* writes nothing, leaves no timer of that channel with the event loop and
\* puts its socket into the holding area; and no handler ever writes to a
\* socket that is in the holding area or deleted, so a payload buffered at
\* removal is never written.
C11_NoWriteAfterRemoval ==
    [][/\ \A i \in DOMAIN out'.writes :
             /\ out'.writes[i].sock \in Handles
             /\ ~Removed(out'.writes[i].sock)
       /\ \A id \in SessionIds, outcome \in UnknownOutcomes :
             (id \in DOMAIN m_idMap /\ RemoveSession(id, outcome))
             => /\ id \notin DOMAIN m_idMap'
                /\ out'.writes = <<>>
                /\ <<"delayed", id>> \notin ActiveTimers'
                /\ m_idMap[id].socket \in Range(m_tmpSocks')
                /\ \A o \in DOMAIN m_idMap' : m_idMap'[o].socket # m_idMap[id].socket]_vars

\* C11 witness: the socket of a session that was removed while it held a
\* buffered payload has been deleted by killSocket, and another session has
\* just had a payload written.
C11_Witness ==
    \E s \in Handles :
        /\ sock[s].dropped
        /\ sock[s].state = "freed"
        /\ Len(out.writes) = 1
        /\ out.writes[1].sock # s
        /\ Owners(out.writes[1].sock) # {}

\* C12: write(id, data) for an id that is not in the map returns false, calls
\* no socket's write and leaves the map, with every channel in it, as it was.
C12_WriteUnknownReturnsFalse ==
    [][\A id \in SessionIds, data \in Payloads :
          (id \notin DOMAIN m_idMap /\ Write(id, data))
          => /\ out'.ret = FALSE
             /\ out'.writes = <<>>
             /\ m_idMap' = m_idMap
             /\ sock' = sock]_vars

\* C12 witness: a handler that is not listen has just returned false without
\* writing, in a running process where one session is registered, holds a
\* buffered payload, and is not the only id.
C12_Witness ==
    /\ ~crashed
    /\ out = Out(FALSE, <<>>, <<>>)
    /\ \E id \in DOMAIN m_idMap : m_idMap[id].buffer # <<>>
    /\ SessionIds \ DOMAIN m_idMap # {}

\* How often call c occurs in the calls of the last handler run.
Calls(c) == Cardinality({ i \in DOMAIN out.calls : out.calls[i] = c })

\* C18 (as claimed): one listen() binds at most twice and unlinks at most
\* once, and unlinks only when the first bind failed and the name starts with
\* '/'; while already listening it returns false with no bind and no unlink;
\* it returns true exactly when the server is listening afterwards.
C18_AsClaimed ==
    [][\A serverName \in ServerNames, unlinkOk \in BOOLEAN :
          Listen(serverName, unlinkOk)
          => /\ Calls("listen")' <= 2
             /\ Calls("unlink")' <= 1
             /\ Calls("unlink")' = 1
                   => ~listening /\ ~BindOk(stale) /\ serverName[1] = Slash
             /\ listening
                   => Calls("listen")' = 0 /\ Calls("unlink")' = 0 /\ out'.ret = FALSE
             /\ out'.ret = listening']_vars

\* C18 (amended): as above, but the result is true exactly when the server is
\* listening afterwards only for a call made while the server is not
\* listening; a call made while it is listening returns false and the server
\* goes on listening.  A second bind is always preceded by the one unlink.
C18_ListenBindsAtMostTwice ==
    [][\A serverName \in ServerNames, unlinkOk \in BOOLEAN :
          Listen(serverName, unlinkOk)
          => /\ Calls("listen")' <= 2
             /\ Calls("unlink")' <= 1
             /\ Calls("unlink")' = 1
                   => ~listening /\ ~BindOk(stale) /\ serverName[1] = Slash
             /\ Calls("listen")' = 2 => Calls("unlink")' = 1
             /\ listening
                   => /\ Calls("listen")' = 0
                      /\ Calls("unlink")' = 0
                      /\ out'.ret = FALSE
                      /\ listening'
             /\ ~listening => out'.ret = listening']_vars

\* C18 witness: listen has bound twice with one unlink between, and the
\* server is listening.
C18_Witness ==
    /\ out.calls = <<"isListening", "listen", "unlink", "listen", "isListening">>
    /\ out.ret
    /\ listening

\* The sockets in the holding area, oldest first.
HeldHandles == SelectSeq(m_tmpSocks, LAMBDA p : p \in Handles)

\* C17 (as claimed): the number of pending killSocket timers equals the
\* number of sockets in the holding area, and every run of killSocket finds
\* the holding area non-empty and deletes exactly its oldest entry, a socket
\* that was not deleted before, leaving every other socket alone.
C17_KillTimersMatchHoldingArea ==
    [][/\ killTimers = Len(HeldHandles)
       /\ killTimers' = Len(HeldHandles)'
       /\ \A wildFaults \in BOOLEAN :
             (~crashed /\ killTimers > 0 /\ KillSocket(wildFaults))
             => /\ ~crashed'
                /\ m_tmpSocks # <<>>
                /\ Head(m_tmpSocks) \in Handles
                /\ m_tmpSocks' = Tail(m_tmpSocks)
                /\ sock[Head(m_tmpSocks)].state # "freed"
                /\ sock' = DeleteSocket(sock, Head(m_tmpSocks))]_vars

\* C19: no socket is held by two registered sessions: a socket whose
\* handshake was read has readyRead() disconnected, and the only session that
\* can hold it is the one whose id that read gave.
C19_OneSessionPerSocket ==
    \A s \in Handles :
        /\ Cardinality(Owners(s)) <= 1
        /\ Owners(s) \subseteq {sock[s].readId}
        /\ sock[s].readId # Unread => ~sock[s].readyRead

\* C19 witness: both connections have had their handshake read and hold one
\* session each.
C19_Witness ==
    \E s \in Handles, t \in Handles :
        /\ s # t
        /\ Cardinality(Owners(s)) = 1
        /\ Cardinality(Owners(t)) = 1
        /\ Owners(s) # Owners(t)
        /\ ~sock[s].readyRead
        /\ ~sock[t].readyRead

\* C20: the first write() on a channel, one for which socket->write was never
\* called, calls socket->write once with the payload given, within the call,
\* whatever the interval is; nothing is buffered and lastWrite is set.
C20_FirstWriteImmediate ==
    [][\A id \in SessionIds, data \in Payloads :
          (/\ id \in DOMAIN m_idMap
           /\ aux[id].physAt = -1
           /\ ~aux[id].pending
           /\ Write(id, data))
          => /\ out'.writes = <<WireWrite(m_idMap[id].socket, data)>>
             /\ out'.ret = SocketWriteOk(m_idMap[id].socket)
             /\ m_idMap'[id].buffer = <<>>
             /\ m_idMap'[id].lastWrite = TimeOfDay(now)
             /\ ~aux'[id].pending]_vars

\* C20 witness: no time has passed since construction, a channel has an
\* interval set, and a payload has just been written to its socket: with no
\* time elapsed that can only be its first write.
C20_Witness ==
    /\ now = StartUs
    /\ \E id \in DOMAIN m_idMap :
          /\ m_idMap[id].interval > 0
          /\ aux[id].stable
          /\ aux[id].physAt = now
          /\ m_idMap[id].buffer = <<>>
          /\ Len(out.writes) = 1
          /\ out.writes[1].sock = m_idMap[id].socket

\* The sessions that have a request in the queue of node n.
Requesters(n) == { node[n].m_dataRangeQueue[i].id : i \in DOMAIN node[n].m_dataRangeQueue }

\* C13: range requests are resolved first in, first out.  A valid request
\* of a session with no request queued goes behind the ones queued, and is
\* the active one only if the queue was empty; removing a request that is
\* not the head leaves getCurrentDataRange() as it is; removing the head
\* makes the next-oldest request the active one, or, if it was the last,
\* the request with id -1.  The queue holds one entry per session.
C13_RangeRequestsFifo ==
    [][\A n \in RangeNodes, sessionId \in NodeSessions :
          LET q == node[n].m_dataRangeQueue
          IN  /\ Cardinality(Requesters(n)) = Len(q)
              /\ \A range \in Ranges, repeat \in RepeatOutcomes :
                    (/\ RequestDataRange(n, sessionId, range, repeat)
                     /\ range \in Range(GetAvailableDataRanges(n))
                     /\ sessionId \notin Requesters(n))
                    => /\ Len(node'[n].m_dataRangeQueue) = Len(q) + 1
                       /\ SubSeq(node'[n].m_dataRangeQueue, 1, Len(q)) = q
                       /\ node'[n].m_dataRangeQueue[Len(q) + 1]
                             = [id |-> sessionId, range |-> range]
                       /\ GetCurrentDataRange(n)'
                             = IF q = <<>>
                               THEN [id |-> sessionId, range |-> range]
                               ELSE GetCurrentDataRange(n)
              /\ RemoveDataRangeRequest(n, sessionId)
                    => /\ sessionId \notin Requesters(n)'
                       /\ IF q = <<>> \/ Head(q).id # sessionId
                          THEN GetCurrentDataRange(n)' = GetCurrentDataRange(n)
                          ELSE IF Len(q) > 1
                               THEN GetCurrentDataRange(n)' = q[2]
                               ELSE GetCurrentDataRange(n)'.id = NoRequest]_vars

\* C13 witness: the head of a queue was just removed and the request behind
\* it promoted, the hook running for it, while a node that had requests of
\* three sessions in the order 2, 0, 1 has the oldest of them as the active one.
C13_Witness ==
    \E n \in RangeNodes, m \in RangeNodes :
        /\ Len(node[n].m_dataRangeQueue) = 3
        /\ node[n].m_dataRangeQueue[1].id = 2
        /\ node[n].m_dataRangeQueue[2].id = 0
        /\ GetCurrentDataRange(n).id = 2
        /\ m # n
        /\ Len(node[m].m_dataRangeQueue) = 2
        /\ nodeOut.hooks = <<Head(node[m].m_dataRangeQueue)>>

\* The ranges a request on node n may name: the local list, or the list the
\* range source gives when the node has no local one.
Available(n) ==
    IF node[n].m_dataRangeList # <<>>
    THEN Range(node[n].m_dataRangeList)
    ELSE IF node[n].m_dataRangeSource # NULL
         THEN Range(GetAvailableDataRanges(node[n].m_dataRangeSource))
         ELSE {}

\* C14: requestDataRange with a range that is not among the available ones
\* is dropped: the queue of every node and getCurrentDataRange() are as they
\* were before the call, and the setDataRange hook is not invoked.
C14_InvalidRangeDropped ==
    [][\A n \in RangeNodes, sessionId \in NodeSessions, range \in Ranges,
          repeat \in RepeatOutcomes :
          (RequestDataRange(n, sessionId, range, repeat) /\ range \notin Available(n))
          => /\ node' = node
             /\ GetCurrentDataRange(n)' = GetCurrentDataRange(n)
             /\ nodeOut'.hooks = <<>>
             /\ nodeOut'.dropped]_vars

\* C14 witness: a request has just been dropped while a node that takes its
\* ranges from its range source has a request queued.
C14_Witness ==
    /\ nodeOut.dropped
    /\ \E n \in RangeNodes :
          /\ node[n].m_dataRangeList = <<>>
          /\ node[n].m_dataRangeSource # NULL
          /\ node[n].m_dataRangeQueue # <<>>

\* The upstream nodes k steps from the nodes of S, with S.
RECURSIVE Upstream(_, _)
Upstream(S, k) ==
    IF k = 0
    THEN S
    ELSE Upstream(S \cup UNION { Range(node[x].m_standbySourceList) : x \in S }, k - 1)

C16_MetadataValidExactlyOne ==
    \A n \in RangeNodes :
        node[n].constructed
        => (node[n].valid
              <=> \/ Len(node[n].m_dataRangeList) >= 1 /\ node[n].m_dataRangeSource = NULL
                  \/ Len(node[n].m_dataRangeList) = 0 /\ node[n].m_dataRangeSource # NULL)

\* C16 witness: a node constructed with a local range and a range source
\* was found invalid, next to a node with a local range alone found valid.
C16_Witness ==
    \E n \in RangeNodes, m \in RangeNodes :
        /\ node[n].constructed
        /\ ~node[n].valid
        /\ node[n].m_dataRangeList # <<>>
        /\ node[n].m_dataRangeSource = m
        /\ node[m].valid
        /\ node[m].m_dataRangeList # <<>>

====
